---------------------------- MODULE Spec2Model ----------------------------
(***************************************************************************)
(* Conrad Coach v3 (conrad_coach_v3.py): the stored log written by         *)
(* log_entry, the trend / advisor / allocator / diagnosis functions read   *)
(* by report and build_dashboard.                                          *)
(*                                                                         *)
(* Numbers.  The program computes in Python floats over decimal inputs;    *)
(* the model computes the same quantities exactly, in scaled integers:     *)
(*   weights            hundredths of a lb            (180.00 lb = 18000)  *)
(*   weekly delta       1/700 lb  (difference of two 7-sums of weights)    *)
(*   waist              hundredths of an inch                              *)
(*   adherence          hundredths                    (1.0 = 100)          *)
(*   body-fat reading   tenths of a percent           (18.5 % = 185)       *)
(*   body-fat average   1/30 percent  (the sum of three readings)          *)
(*   lean mass          1/300000 lb   (weight * (3000 - average))          *)
(*   kcal densities     hundredths of a kcal per unit (3.87 = 387)         *)
(* Binary rounding of the floats themselves is not modelled.               *)
(***************************************************************************)
EXTENDS Integers, Sequences, FiniteSets, TLC

VARIABLES
    entries,        \* data["entries"]: the stored log / the series analysed
    loaded,         \* log_entry: data["entries"] as load_data() gave it
    lastEntry,      \* log_entry: the DailyEntry it built and saved (or None)
    wk_gain_lb,     \* suggest_calorie_adjustment: its argument
    kcal_adj,       \* suggest_calorie_adjustment: its result (or None)
    cardio_min,     \* cardio_fuel_note: its argument (Optional)
    cardio_src,     \* baseline["cardio_fuel"]["preferred_source"]
    cardio_note,    \* cardio_fuel_note: "pending", or its result (Optional)
    kcal_change,    \* propose_adjustment: its argument
    priority,       \* baseline["adjust_priority"]
    idx,            \* propose_adjustment: position of the for loop (1-based)
    remaining,      \* propose_adjustment: local remaining
    plan,           \* propose_adjustment: local plan
    pc,             \* propose_adjustment: "idle", "call", "loop", "returned", "raised"
    out             \* what report / build_dashboard produced ("pending" before)

vars == << entries, loaded, lastEntry, wk_gain_lb, kcal_adj, cardio_min, cardio_src,
           cardio_note, kcal_change, priority, idx, remaining, plan, pc, out >>

logVars     == << entries, loaded, lastEntry >>
advisorVars == << wk_gain_lb, kcal_adj >>
cardioVars  == << cardio_min, cardio_src, cardio_note >>
allocVars   == << kcal_change, priority, idx, remaining, plan, pc >>

---------------------------------------------------------------------------
(* Optional values: None is the empty tuple, a present value v is <<v>>.   *)

None == << >>

Some(v) == << v >>

IsNone(o) == o = None

Val(o) == o[1]

Abs(x) == IF x < 0 THEN -x ELSE x

Range(s) == { s[i] : i \in DOMAIN s }

RECURSIVE SumSeq(_)
SumSeq(s) == IF s = << >> THEN 0 ELSE Head(s) + SumSeq(Tail(s))

\* Python's round() on the exact quotient n/d (d > 0): nearest, ties to even.
PyRound(n, d) ==
    LET q == n \div d
        r == n - q * d
    IN  IF 2 * r < d THEN q
        ELSE IF 2 * r > d THEN q + 1
        ELSE IF q % 2 = 0 THEN q ELSE q + 1

---------------------------------------------------------------------------
(* CalorieAdjustmentAdvisor                                                *)

\* Units of the weekly delta per lb: 7 (the rolling window) * 100.
Window == 7

GainLow == 10 * Window          \* 0.10 lb/week

GainHoldLo == 25 * Window       \* 0.25 lb/week

GainHoldHi == 50 * Window       \* 0.50 lb/week

GainHigh == 75 * Window         \* 0.75 lb/week

\* faulty variant: 0.10 lb/week falls in the +100 band
suggest_boundary_slip(wk) ==
    IF wk <= GainLow THEN 100
    ELSE IF wk < GainHoldLo THEN 75
    ELSE IF wk <= GainHoldHi THEN 0
    ELSE IF wk <= GainHigh THEN -50
    ELSE -100

suggest_calorie_adjustment(wk) ==
    IF wk < GainLow THEN 100
    ELSE IF GainLow <= wk /\ wk < GainHoldLo THEN 75
    ELSE IF GainHoldLo <= wk /\ wk <= GainHoldHi THEN 0
    ELSE IF GainHoldHi < wk /\ wk <= GainHigh THEN -50
    ELSE -100

---------------------------------------------------------------------------
(* IngredientAllocator                                                     *)

KCAL_PER_UNIT ==
    [ oats_g |-> 400, dextrin_g |-> 387, whey_g |-> 376, mct_g |-> 700,
      flax_g |-> 324, bananas |-> 10400, eggs |-> 7750, yogurt_cups |-> 14950 ]

AdjustPriority ==
    << "mct_g", "dextrin_g", "oats_g", "bananas", "eggs", "flax_g",
       "whey_g", "yogurt_cups" >>

Countables == { "bananas", "eggs", "yogurt_cups" }

FineItems == { "mct_g", "dextrin_g" }

ProteinLevers == { "whey_g", "yogurt_cups" }

\* item.endswith("_g") over the keys of KCAL_PER_UNIT
EndsWithG(item) == item \in { "oats_g", "dextrin_g", "whey_g", "mct_g", "flax_g" }

StopKcal == 25

ProteinKcal == 150

\* faulty variant: every gram item is rounded to 5 g, the fine items' rule
grams_for_kcal_all_fine(item, kcal) ==
    LET grams == PyRound(kcal * 100, KCAL_PER_UNIT[item])
    IN  IF item \in Countables THEN grams ELSE PyRound(grams, 5) * 5

\* grams_for_kcal is reached only for a key of KCAL_PER_UNIT (else KeyError)
grams_for_kcal(item, kcal) ==
    LET k == KCAL_PER_UNIT[item]
        grams == PyRound(kcal * 100, k)
    IN  IF item \in Countables THEN grams
        ELSE IF item \in FineItems THEN PyRound(grams, 5) * 5
        ELSE PyRound(grams, 10) * 10

\* faulty variant: exactly 150 kcal remaining already opens the protein levers
ProteinSkipStrict(item, rem) == item \in ProteinLevers /\ Abs(rem) < ProteinKcal

\* the protein guard of the loop: TRUE when the item is passed over
ProteinSkip(item, rem) == item \in ProteinLevers /\ Abs(rem) <= ProteinKcal

\* faulty variant: no stop test, the walk always runs to the end of the list
LoopStepNoStop(L, prio) ==
    IF L.i > Len(prio) THEN [L EXCEPT !.status = "returned"]
    ELSE
      LET item == prio[L.i] IN
      IF item \in ProteinLevers /\ Abs(L.remaining) <= ProteinKcal
      THEN [L EXCEPT !.i = L.i + 1]
      ELSE IF item \notin DOMAIN KCAL_PER_UNIT THEN [L EXCEPT !.status = "raised"]
      ELSE
        LET g == grams_for_kcal(item, L.remaining)
            delta == IF g # 0 THEN g
                     ELSE (IF EndsWithG(item) THEN 10 ELSE 1)
                          * (IF L.remaining < 0 THEN -1 ELSE 1)
            achieved == PyRound(delta * KCAL_PER_UNIT[item], 100)
        IN  [ i |-> L.i + 1,
              remaining |-> L.remaining - achieved,
              plan |-> Append(L.plan, << item, delta, achieved >>),
              status |-> "loop" ]

\* One pass of "for item in baseline['adjust_priority']" from loop state L
\* (i: next position, remaining, plan, status), or the loop's end.
LoopStep(L, prio) ==
    IF L.i > Len(prio) THEN [L EXCEPT !.status = "returned"]
    ELSE
      LET item == prio[L.i] IN
      IF Abs(L.remaining) <= StopKcal THEN [L EXCEPT !.status = "returned"]
      ELSE IF ProteinSkip(item, L.remaining) THEN [L EXCEPT !.i = L.i + 1]
      ELSE IF item \notin DOMAIN KCAL_PER_UNIT THEN [L EXCEPT !.status = "raised"]
      ELSE
        LET g == grams_for_kcal(item, L.remaining)
            delta == IF g # 0 THEN g
                     ELSE (IF EndsWithG(item) THEN 10 ELSE 1)
                          * (IF L.remaining < 0 THEN -1 ELSE 1)
            achieved == PyRound(delta * KCAL_PER_UNIT[item], 100)
        IN  [ i |-> L.i + 1,
              remaining |-> L.remaining - achieved,
              plan |-> Append(L.plan, << item, delta, achieved >>),
              status |-> "loop" ]

\* the state propose_adjustment enters its loop in, or its early return
LoopEntry(kcal) ==
    [ i |-> 1, remaining |-> kcal, plan |-> << >>,
      status |-> IF kcal = 0 THEN "returned" ELSE "loop" ]

RECURSIVE RunLoop(_, _)
RunLoop(L, prio) == IF L.status = "loop" THEN RunLoop(LoopStep(L, prio), prio) ELSE L

\* the whole call: status "returned" with the plan, or "raised" (KeyError on
\* an ingredient KCAL_PER_UNIT does not hold) with no plan
propose_adjustment(kcal, prio) ==
    LET L == RunLoop(LoopEntry(kcal), prio)
    IN  [ status |-> L.status,
          plan |-> IF L.status = "raised" THEN << >> ELSE L.plan ]

---------------------------------------------------------------------------
(* CardioFuelGuard                                                         *)

ThresholdMin == 45

AddCarbsG == 25

\* int(cardio_min): cardio minutes are kept in tenths (46.0 = 460), as the
\* float column pandas makes of them; int() truncates toward zero.
PyInt(x10) == IF x10 >= 0 THEN x10 \div 10 ELSE -((-x10) \div 10)

\* faulty variant: the threshold itself triggers the advisory
cardio_fuel_note_at_threshold(cm_opt, src) ==
    IF IsNone(cm_opt) THEN None
    ELSE IF PyInt(Val(cm_opt)) >= ThresholdMin
         THEN Some([ cm |-> PyInt(Val(cm_opt)), add |-> AddCarbsG, src |-> "dextrin" ])
         ELSE None

cardio_fuel_note(cm_opt, src) ==
    IF IsNone(cm_opt) THEN None
    ELSE
      LET cm == PyInt(Val(cm_opt)) IN
      IF cm > ThresholdMin
      THEN IF src = "oats_g"
           THEN Some([ cm |-> cm, add |-> AddCarbsG, src |-> "oats",
                       oats_g |-> PyRound(AddCarbsG * 100, 67 * 10) * 10 ])
           ELSE Some([ cm |-> cm, add |-> AddCarbsG, src |-> "dextrin" ])
      ELSE None

---------------------------------------------------------------------------
(* DailyEntry and the stored log                                           *)
(*                                                                         *)
(* A record keeps the fields the analysed functions read.  evening weight, *)
(* sleep, water, steps, lift_done and notes are stored by log_entry and    *)
(* read by none of them; they are left out.                                *)
(* day is the string "YYYY-MM-DD", kept as the tuple of its eight digits   *)
(* (the dashes sit at fixed positions and never decide a comparison).      *)

\* Python's str < str: lexicographic on the characters
StrLess(a, b) ==
    \/ \E k \in 1..Len(a) :
          /\ k <= Len(b)
          /\ \A j \in 1..(k - 1) : a[j] = b[j]
          /\ a[k] < b[k]
    \/ /\ Len(a) < Len(b)
       /\ \A j \in 1..Len(a) : a[j] = b[j]

\* pd.to_datetime(day): the calendar date as one number, yyyymmdd
to_datetime(day) ==
    (day[1] * 1000 + day[2] * 100 + day[3] * 10 + day[4]) * 10000
    + (day[5] * 10 + day[6]) * 100 + (day[7] * 10 + day[8])

\* faulty variant: the mean of whatever readings are present
avg3_of_present(a, b, c) ==
    LET vals == SelectSeq(<< a, b, c >>, LAMBDA v : ~IsNone(v))
    IN  IF Len(vals) = 0 THEN None
        ELSE Some((3 * SumSeq([ i \in DOMAIN vals |-> Val(vals[i]) ])) \div Len(vals))

avg3(a, b, c) ==
    LET vals == SelectSeq(<< a, b, c >>, LAMBDA v : ~IsNone(v))
    IN  IF Len(vals) # 3 THEN None
        ELSE Some(Val(vals[1]) + Val(vals[2]) + Val(vals[3]))

\* adherence_0to1 = float(input_float(..., allow_blank=True) or 1.0)
AdherenceInput(a) == IF IsNone(a) \/ Val(a) = 0 THEN 100 ELSE Val(a)

\* DailyEntry(...) as log_entry builds it from what was typed
DailyEntry(day, weight, m, e, waist, cardio, deload, note, adh) ==
    [ day |-> day,
      morning_weight_lb |-> weight,
      waist_in |-> waist,
      bf_morning_pct |-> avg3(m[1], m[2], m[3]),
      bf_morning_r1 |-> m[1], bf_morning_r2 |-> m[2], bf_morning_r3 |-> m[3],
      bf_evening_pct |-> avg3(e[1], e[2], e[3]),
      bf_evening_r1 |-> e[1], bf_evening_r2 |-> e[2], bf_evening_r3 |-> e[3],
      cardio_min |-> cardio,
      deload_week |-> deload,
      performance_note |-> note,
      adherence_0to1 |-> Some(AdherenceInput(adh)) ]

\* list.sort(key=lambda e: e["day"]): stable, ascending on the day string
RECURSIVE InsertByDay(_, _)
InsertByDay(r, s) ==
    IF s = << >> THEN << r >>
    ELSE IF StrLess(r.day, s[Len(s)].day)
         THEN Append(InsertByDay(r, SubSeq(s, 1, Len(s) - 1)), s[Len(s)])
         ELSE Append(s, r)

RECURSIVE SortByDay(_)
SortByDay(s) ==
    IF s = << >> THEN << >>
    ELSE InsertByDay(s[Len(s)], SortByDay(SubSeq(s, 1, Len(s) - 1)))

\* faulty variant: the entry is appended without dropping the day's old record
StoreEntryKeepingOld(old, entry) == SortByDay(Append(old, entry))

\* the three statements that store the entry:
\*   entries = [e for e in data["entries"] if e["day"] != day]
\*   entries.append(asdict(entry)); entries.sort(key=lambda e: e["day"])
StoreEntry(old, entry) ==
    SortByDay(Append(SelectSeq(old, LAMBDA r : r.day # entry.day), entry))

---------------------------------------------------------------------------
(* df_entries: the frame the analytics read                                *)

LeanMass(r) ==
    IF IsNone(r.bf_morning_pct) THEN None
    ELSE Some(r.morning_weight_lb * (3000 - Val(r.bf_morning_pct)))

RECURSIVE InsertByDate(_, _)
InsertByDate(r, s) ==
    IF s = << >> THEN << r >>
    ELSE IF to_datetime(r.day) < to_datetime(s[Len(s)].day)
         THEN Append(InsertByDate(r, SubSeq(s, 1, Len(s) - 1)), s[Len(s)])
         ELSE Append(s, r)

RECURSIVE SortByDate(_)
SortByDate(s) ==
    IF s = << >> THEN << >>
    ELSE InsertByDate(s[Len(s)], SortByDate(SubSeq(s, 1, Len(s) - 1)))

df_entries(es) ==
    LET e == SortByDate(es)
    IN  [ i \in DOMAIN e |->
            [ day |-> e[i].day,
              morning_weight_lb |-> e[i].morning_weight_lb,
              waist_in |-> e[i].waist_in,
              bf_morning_pct |-> e[i].bf_morning_pct,
              cardio_min |-> e[i].cardio_min,
              deload_week |-> e[i].deload_week,
              performance_note |-> e[i].performance_note,
              adherence_0to1 |-> e[i].adherence_0to1,
              lean_mass_lb |-> LeanMass(e[i]) ] ]

\* e.tail(k)
TailRows(e, k) == IF Len(e) <= k THEN e ELSE SubSeq(e, Len(e) - k + 1, Len(e))

\* e[column].dropna() as a list of present values
DropNa(col) == SelectSeq(col, LAMBDA v : ~IsNone(v))

---------------------------------------------------------------------------
(* TrendAggregator                                                         *)

\* series.rolling(7, min_periods=7).mean() at row i, as the 7-sum (7 * mean)
Rolling7(series, i) ==
    IF i < Window THEN None
    ELSE IF \E j \in (i - Window + 1)..i : IsNone(series[j]) THEN None
    ELSE Some(SumSeq([ j \in 1..Window |-> Val(series[i - Window + j]) ]))

MinSeries == 14

\* faulty variant: no length check and rolling(7, min_periods=1)
weekly_delta_partial_windows(series) ==
    IF Len(series) < 8 THEN None
    ELSE
      LET n == Len(series)
          Part(i) == SumSeq([ j \in 1..(IF i < Window THEN i ELSE Window) |->
                        Val(series[i - (IF i < Window THEN i ELSE Window) + j]) ])
      IN  Some(Part(n) - Part(n - 7))

weekly_delta_7day_avg(series) ==
    IF Len(series) < MinSeries THEN None
    ELSE
      LET last == Rolling7(series, Len(series))
          prev == Rolling7(series, Len(series) - 7)
      IN  IF IsNone(last) \/ IsNone(prev) THEN None
          ELSE Some(Val(last) - Val(prev))

WeightSeries(e) == [ i \in DOMAIN e |-> Some(e[i].morning_weight_lb) ]

---------------------------------------------------------------------------
(* BodyCompositionEstimator                                                *)

RatioWindow == 14

MinWeightDelta == 10            \* 0.1 lb

\* faulty variant: the noise guard tests dw, not abs(dw)
lean_gain_ratio_signed_guard(e) ==
    LET recent == SelectSeq(TailRows(e, RatioWindow),
                            LAMBDA r : ~IsNone(r.lean_mass_lb))
    IN  IF Len(recent) < 2 THEN None
        ELSE
          LET dw  == recent[Len(recent)].morning_weight_lb - recent[1].morning_weight_lb
              dlm == Val(recent[Len(recent)].lean_mass_lb) - Val(recent[1].lean_mass_lb)
          IN  IF dw < MinWeightDelta THEN None
              ELSE Some([ num |-> dlm, den |-> 3000 * dw ])

\* the ratio dlm / dw is returned as the fraction num / den
lean_gain_ratio_14d(e) ==
    LET recent == SelectSeq(TailRows(e, RatioWindow),
                            LAMBDA r : ~IsNone(r.lean_mass_lb))
    IN  IF Len(recent) < 2 THEN None
        ELSE
          LET w0  == recent[1].morning_weight_lb
              w1  == recent[Len(recent)].morning_weight_lb
              lm0 == Val(recent[1].lean_mass_lb)
              lm1 == Val(recent[Len(recent)].lean_mass_lb)
              dw  == w1 - w0
              dlm == lm1 - lm0
          IN  IF Abs(dw) < MinWeightDelta THEN None
              ELSE Some([ num |-> dlm, den |-> 3000 * dw ])

---------------------------------------------------------------------------
(* Diagnoser                                                               *)

\* a performance note is the tuple of its characters
ToLower(c) ==
    LET up == [ A |-> "a", B |-> "b", C |-> "c", D |-> "d", E |-> "e", F |-> "f",
                G |-> "g", H |-> "h", I |-> "i", J |-> "j", K |-> "k", L |-> "l",
                M |-> "m", N |-> "n", O |-> "o", P |-> "p", Q |-> "q", R |-> "r",
                S |-> "s", T |-> "t", U |-> "u", V |-> "v", W |-> "w", X |-> "x",
                Y |-> "y", Z |-> "z" ]
    IN  IF c \in DOMAIN up THEN up[c] ELSE c

StrLower(n) == [ i \in 1..Len(n) |-> ToLower(n[i]) ]

\* b in n: substring
Contains(n, b) ==
    \E i \in 1..(Len(n) - Len(b) + 1) : SubSeq(n, i, i + Len(b) - 1) = b

bad_words ==
    { << "f", "l", "a", "t" >>,
      << "t", "i", "r", "e", "d" >>,
      << "s", "t", "a", "l", "l", "e", "d" >>,
      << "n", "o", " ", "p", "r", "o", "g", "r", "e", "s", "s" >>,
      << "w", "e", "a", "k" >> }

DiagWindow == 14

AdherenceMin == 90              \* 0.9

WaistRise == 25                 \* 0.25 in

MinBadNotes == 2

MsgShort == "Need at least ~14 days to diagnose trend vs noise."

MsgNoRolling == "Need enough data for 7-day rolling averages."

MsgAdherence == "Likely adherence/data-quality issue first (plan not executed consistently)."

MsgDeloadHold == "Deload flagged. Weight not moving is acceptable; hold diet steady and reassess after deload."

MsgDeloadReassess == "Deload flagged. Avoid training conclusions; reassess next week."

MsgOvershoot == "Likely diet overshoot (gain too fast + waist rising). Reduce calories slightly."

MsgUndershoot == "Likely diet/recovery undershoot (not gaining + performance flat). Add calories or reduce cardio/stress."

MsgAdequate == "Diet likely adequate (weight trending right). Look at training variables and sleep."

MsgLeanDown == "Weight up but estimated lean mass down (likely BIA noise or glycogen/hydration swing). Check hydration consistency + use 7-day averages."

MsgNoFlags == "No clear red flags. Keep running the plan; watch 7-day averages."

\* faulty variant: largest minus smallest present value
ChangeOverRange(col) ==
    LET present == DropNa(col)
        vals == { Val(present[i]) : i \in DOMAIN present }
    IN  IF Len(present) >= 2
        THEN Some((CHOOSE x \in vals : \A y \in vals : y <= x)
                  - (CHOOSE x \in vals : \A y \in vals : x <= y))
        ELSE None

\* last minus first of column[].dropna() when it holds >= 2 values
ChangeOver(col) ==
    LET present == DropNa(col)
    IN  IF Len(present) >= 2
        THEN Some(Val(present[Len(present)]) - Val(present[1]))
        ELSE None

\* faulty variant: the deload branch is tested before adherence
VerdictDeloadFirst(avg_adh_sum, n, deload, wk_gain, waist_change, lean_change, perf_flat) ==
    IF deload
    THEN (IF wk_gain < GainLow THEN MsgDeloadHold ELSE MsgDeloadReassess)
    ELSE IF avg_adh_sum < AdherenceMin * n THEN MsgAdherence
    ELSE MsgNoFlags

\* the cascade of returns that ends diagnose
Verdict(avg_adh_sum, n, deload, wk_gain, waist_change, lean_change, perf_flat) ==
    IF avg_adh_sum < AdherenceMin * n THEN MsgAdherence
    ELSE IF deload
         THEN (IF wk_gain < GainLow THEN MsgDeloadHold ELSE MsgDeloadReassess)
    ELSE IF wk_gain > GainHigh /\ ~IsNone(waist_change) /\ Val(waist_change) > WaistRise
         THEN MsgOvershoot
    ELSE IF wk_gain < GainLow /\ perf_flat THEN MsgUndershoot
    ELSE IF GainHoldLo <= wk_gain /\ wk_gain <= GainHoldHi /\ perf_flat THEN MsgAdequate
    ELSE IF ~IsNone(lean_change) /\ wk_gain > GainHoldLo /\ Val(lean_change) < 0
         THEN MsgLeanDown
    ELSE MsgNoFlags

diagnose(e) ==
    IF Len(e) < DiagWindow THEN MsgShort
    ELSE
      LET wk == weekly_delta_7day_avg(WeightSeries(e)) IN
      IF IsNone(wk) THEN MsgNoRolling
      ELSE
        LET recent == TailRows(e, DiagWindow)
            \* recent["adherence_0to1"].fillna(1.0).mean(), as the sum
            adh == SumSeq([ i \in DOMAIN recent |->
                       IF IsNone(recent[i].adherence_0to1) THEN 100
                       ELSE Val(recent[i].adherence_0to1) ])
            deload == \E i \in DOMAIN recent :
                        /\ ~IsNone(recent[i].deload_week)
                        /\ Val(recent[i].deload_week)
            waist_change == ChangeOver([ i \in DOMAIN recent |-> recent[i].waist_in ])
            lean_change == ChangeOver([ i \in DOMAIN recent |-> recent[i].lean_mass_lb ])
            noted == DropNa([ i \in DOMAIN recent |-> recent[i].performance_note ])
            perf_notes == [ i \in DOMAIN noted |-> StrLower(Val(noted[i])) ]
            perf_flat == Cardinality({ i \in DOMAIN perf_notes :
                            \E b \in bad_words : Contains(perf_notes[i], b) }) >= MinBadNotes
        IN  Verdict(adh, Len(recent), deload, Val(wk), waist_change, lean_change, perf_flat)

---------------------------------------------------------------------------
(* report and build_dashboard                                              *)

MinReport == 7

\* max(-1.0, min(2.0, ratio)) on the fraction num / den
ClampDisplay(r) ==
    LET num == IF r.den < 0 THEN -r.num ELSE r.num
        den == Abs(r.den)
    IN  IF num > 2 * den THEN [ num |-> 2, den |-> 1 ]
        ELSE IF num < -den THEN [ num |-> -1, den |-> 1 ]
        ELSE [ num |-> num, den |-> den ]

\* the guardrail lines of report: rows of e.tail(7) over the threshold
CardioLines(e, src) ==
    LET last7 == TailRows(e, 7)
        over == SelectSeq(last7, LAMBDA r :
                    (IF IsNone(r.cardio_min) THEN 0 ELSE Val(r.cardio_min))
                        > ThresholdMin * 10)
        noted == SelectSeq(over, LAMBDA r : ~IsNone(cardio_fuel_note(r.cardio_min, src)))
    IN  [ i \in DOMAIN noted |->
            [ day |-> noted[i].day, note |-> Val(cardio_fuel_note(noted[i].cardio_min, src)) ] ]

NoReport(why) ==
    [ op |-> "report", status |-> why, wk_gain |-> None, kcal_adj |-> None,
      adj_plan |-> << >>, diag |-> None, ratio |-> None, ratio_disp |-> None,
      cardio |-> << >> ]

report(es, prio, src) ==
    LET e == df_entries(es) IN
    IF Len(e) < MinReport THEN NoReport("Not enough entries yet")
    ELSE
      LET wk == weekly_delta_7day_avg(WeightSeries(e)) IN
      IF IsNone(wk) THEN NoReport("Need ~14 days")
      ELSE
        LET adj == suggest_calorie_adjustment(Val(wk))
            p == propose_adjustment(adj, prio)
            ratio == lean_gain_ratio_14d(e)
        IN  IF p.status = "raised" THEN NoReport("KeyError")
            ELSE [ op |-> "report", status |-> "printed",
                   wk_gain |-> wk, kcal_adj |-> Some(adj), adj_plan |-> p.plan,
                   diag |-> Some(diagnose(e)),
                   ratio |-> ratio,
                   ratio_disp |-> IF IsNone(ratio) THEN None
                                  ELSE Some(ClampDisplay(Val(ratio))),
                   cardio |-> CardioLines(e, src) ]

build_dashboard(es, src) ==
    LET e == df_entries(es) IN
    IF Len(e) = 0 THEN [ op |-> "dashboard", status |-> "No entries logged yet",
                         ratio |-> None ]
    ELSE [ op |-> "dashboard", status |-> "written",
           weight_7d_avg |-> [ i \in DOMAIN e |-> Rolling7(WeightSeries(e), i) ],
           cardio_fuel_note |-> [ i \in DOMAIN e |-> cardio_fuel_note(e[i].cardio_min, src) ],
           ratio |-> lean_gain_ratio_14d(e) ]

---------------------------------------------------------------------------
(* Inputs                                                                  *)

DayString(y, m, d) ==
    << y \div 1000, (y \div 100) % 10, (y \div 10) % 10, y % 10,
       m \div 10, m % 10, d \div 10, d % 10 >>

NoReadings == << None, None, None >>

FullReadings == << Some(180), Some(185), Some(190) >>

HighReadings == << Some(240), Some(250), Some(260) >>

PartialReadings == << Some(180), None, Some(190) >>

BaseWeight == 180 * 100

\* ---- the days log_entry is asked to store, in the order they are drawn on
NumDays == 3

LogDayList ==
    << DayString(2024, 1, 9), DayString(2024, 1, 10), DayString(2023, 12, 31),
       DayString(2024, 2, 1), DayString(2024, 1, 1) >>

LogDays == { LogDayList[k] : k \in 1..(IF NumDays < 5 THEN NumDays ELSE 5) }

\* the morning and evening readings typed for one entry
ReadingInputs ==
    { << FullReadings, HighReadings >>,
      << FullReadings, << None, Some(250), None >> >>,
      << PartialReadings, HighReadings >>,
      << NoReadings, NoReadings >> }

\* ---- the series report and build_dashboard are run on
MaxLen == 15

\* day k of a series: consecutive calendar days from 2024-01-20
SeriesDay(k) == IF 19 + k <= 31 THEN DayString(2024, 1, 19 + k)
                ELSE IF k - 12 <= 29 THEN DayString(2024, 2, k - 12)
                ELSE DayString(2024, 3, k - 41)

\* weekly deltas (1/700 lb) around every threshold, and small weight changes
Gains == { -10, 5, 9, 10, 69, 70, 174, 175, 350, 351, 525, 526 }

\* every row of the window at 0.85, every row at 0.90, or every row at 1.0 but
\* one at 0.20 (mean 0.943)
Adherences == { 85, 90, 20 }

DeloadPatterns == { "none", "in", "out" }

WaistPatterns == { "none", "one", "rise25", "rise26" }

LeanPatterns == { "none", "one", "down", "up" }

BadNoteCounts == { 0, 1, 2 }

NoteOk == << "o", "k" >>

NoteTired == << "T", "i", "r", "e", "d" >>

NoteWeak == << "s", "o", " ", "W", "E", "A", "K" >>

NoteFlat == << "f", "e", "l", "t", " ", "f", "l", "a", "t" >>

\* Row i of a series of n rows.  Row n - 14, when there is one, lies outside
\* every 14-row window and carries values that would change each signal.
SeriesRow(i, n, d, a, dl, wp, lp, nb) ==
    DailyEntry(
        SeriesDay(i),
        BaseWeight + (IF i = n THEN d ELSE 0) + (IF i = n - 14 THEN 500 ELSE 0),
        IF lp = "none" THEN NoReadings
        ELSE IF i = n - 14 THEN << Some(100), Some(100), Some(100) >>
        ELSE IF i = n - 10 THEN (IF lp = "one" THEN PartialReadings
                                 ELSE IF lp = "down" THEN FullReadings
                                 ELSE HighReadings)
        ELSE IF i = n THEN (IF lp = "up" THEN FullReadings
                            ELSE IF lp = "down" THEN HighReadings
                            ELSE FullReadings)
        ELSE NoReadings,
        NoReadings,
        IF wp = "none" THEN None
        ELSE IF i = n - 14 THEN Some(3000)
        ELSE IF i = n - 1 THEN Some(IF wp = "rise26" THEN 3426
                                    ELSE IF wp = "rise25" THEN 3425 ELSE 3400)
        ELSE IF wp = "one" THEN None
        ELSE IF i = n - 12 THEN Some(3400)
        ELSE IF i = n - 5 THEN Some(3300)
        ELSE None,
        IF i = n THEN Some(460)
        ELSE IF i = n - 1 THEN Some(450)
        ELSE IF i = n - 8 THEN Some(600)
        ELSE None,
        IF dl = "in" /\ i = n - 13 THEN Some(TRUE)
        ELSE IF dl = "in" /\ i = n THEN Some(FALSE)
        ELSE IF dl = "out" /\ i = n - 14 THEN Some(TRUE)
        ELSE None,
        IF i = n - 14 THEN Some(NoteFlat)
        ELSE IF i = n - 4 THEN Some(NoteOk)
        ELSE IF i = n - 3 /\ nb >= 1 THEN Some(NoteTired)
        ELSE IF i = n - 2 /\ nb >= 2 THEN Some(NoteWeak)
        ELSE None,
        IF i = n - 14 THEN Some(10)
        ELSE IF a = 20 THEN (IF i = n - 6 THEN Some(20) ELSE Some(100))
        ELSE Some(a))

Series(n, d, a, dl, wp, lp, nb) ==
    [ i \in 1..n |-> SeriesRow(i, n, d, a, dl, wp, lp, nb) ]

\* ---- series logged every stride-th day only, the weight moving by slope
\* (1/100 lb) per calendar day
MaxStride == 2

Slopes == { -5, 0, 10 }

TrendSeries(n, stride, slope) ==
    [ i \in 1..n |->
        DailyEntry(SeriesDay(1 + (i - 1) * stride),
                   BaseWeight + slope * (i - 1) * stride,
                   NoReadings, NoReadings, None, None, None, None, None) ]

\* ---- arguments of the pure functions
MaxGain == 600

MaxCardio == 60

MaxPriority == 3

UnknownItem == "creatine_g"

Items == (DOMAIN KCAL_PER_UNIT) \cup { UnknownItem }

PriorityLists ==
    { AdjustPriority } \cup
    { p \in UNION { [1..k -> Items] : k \in 0..MaxPriority } :
        \A i, j \in DOMAIN p : i # j => p[i] # p[j] }

KcalChanges == { -300, -100, -50, 0, 75, 100, 150, 151, 200, 300 }

---------------------------------------------------------------------------
(* Initial states                                                          *)

LogIdle == entries = << >> /\ loaded = << >> /\ lastEntry = None

AdvisorIdle == wk_gain_lb = 0 /\ kcal_adj = None

CardioIdle ==
    /\ cardio_min = None
    /\ cardio_src = "dextrin_g"
    /\ cardio_note = [ done |-> FALSE ]

AllocIdle ==
    /\ kcal_change = 0
    /\ priority = AdjustPriority
    /\ idx = 0
    /\ remaining = 0
    /\ plan = << >>
    /\ pc = "idle"

OutIdle == out = [ op |-> "pending" ]

\* no log file yet: load_data() gives the empty log
InitLog == LogIdle /\ AdvisorIdle /\ CardioIdle /\ AllocIdle /\ OutIdle

InitReport ==
    /\ \/ \E n \in 0..MaxLen, d \in Gains, a \in Adherences, dl \in DeloadPatterns,
             wp \in WaistPatterns, lp \in LeanPatterns, nb \in BadNoteCounts :
             /\ n < MinSeries - 1 =>
                   a = 90 /\ dl = "none" /\ wp = "none" /\ lp = "none" /\ nb = 0
             /\ entries = Series(n, d, a, dl, wp, lp, nb)
       \/ \E n \in 1..MaxLen, stride \in 1..MaxStride, slope \in Slopes :
             entries = TrendSeries(n, stride, slope)
    /\ loaded = << >>
    /\ lastEntry = None
    /\ AdvisorIdle /\ CardioIdle /\ AllocIdle /\ OutIdle

InitAdvisor ==
    /\ wk_gain_lb \in (-MaxGain)..MaxGain
    /\ kcal_adj = None
    /\ LogIdle /\ CardioIdle /\ AllocIdle /\ OutIdle

InitCardio ==
    /\ cardio_min \in { None } \cup { Some(10 * m) : m \in 0..MaxCardio }
    /\ cardio_src \in { "dextrin_g", "oats_g" }
    /\ cardio_note = [ done |-> FALSE ]
    /\ LogIdle /\ AdvisorIdle /\ AllocIdle /\ OutIdle

InitAlloc ==
    /\ kcal_change \in KcalChanges
    /\ priority \in PriorityLists
    /\ idx = 0
    /\ remaining = 0
    /\ plan = << >>
    /\ pc = "call"
    /\ LogIdle /\ AdvisorIdle /\ CardioIdle /\ OutIdle

---------------------------------------------------------------------------
(* Actions                                                                 *)

\* log_entry: the day and the six body-fat readings are typed; the weight is
\* typed as 180.00 and every "blank ok" prompt is left blank.
log_entry ==
    \E day \in LogDays, bf \in ReadingInputs :
      LET entry == DailyEntry(day, BaseWeight, bf[1], bf[2], None, None, None, None, None)
      IN  /\ loaded' = entries
          /\ entries' = StoreEntry(entries, entry)
          /\ lastEntry' = Some(entry)
          /\ UNCHANGED << advisorVars, cardioVars, allocVars, out >>

Report ==
    /\ out' = report(entries, priority, cardio_src)
    /\ UNCHANGED << logVars, advisorVars, cardioVars, allocVars >>

Dashboard ==
    /\ out' = build_dashboard(entries, cardio_src)
    /\ UNCHANGED << logVars, advisorVars, cardioVars, allocVars >>

Suggest ==
    /\ kcal_adj' = Some(suggest_calorie_adjustment(wk_gain_lb))
    /\ UNCHANGED << wk_gain_lb, logVars, cardioVars, allocVars, out >>

CardioNote ==
    /\ cardio_note' = [ done |-> TRUE, note |-> cardio_fuel_note(cardio_min, cardio_src) ]
    /\ UNCHANGED << cardio_min, cardio_src, logVars, advisorVars, allocVars, out >>

\* propose_adjustment up to its loop
ProposeCall ==
    /\ pc = "call"
    /\ LET L == LoopEntry(kcal_change)
       IN  idx' = L.i /\ remaining' = L.remaining /\ plan' = L.plan /\ pc' = L.status
    /\ UNCHANGED << kcal_change, priority, logVars, advisorVars, cardioVars, out >>

\* one pass of the loop, or its end
ProposeIterate ==
    /\ pc = "loop"
    /\ LET L == LoopStep([ i |-> idx, remaining |-> remaining, plan |-> plan,
                           status |-> pc ], priority)
       IN  idx' = L.i /\ remaining' = L.remaining /\ plan' = L.plan /\ pc' = L.status
    /\ UNCHANGED << kcal_change, priority, logVars, advisorVars, cardioVars, out >>

NextLog == log_entry

NextReport == Report \/ Dashboard

NextAdvisor == Suggest

NextCardio == CardioNote

NextAlloc == ProposeCall \/ ProposeIterate

SpecLog == InitLog /\ [][NextLog]_vars

SpecReport == InitReport /\ [][NextReport]_vars

SpecAdvisor == InitAdvisor /\ [][NextAdvisor]_vars

SpecCardio == InitCardio /\ [][NextCardio]_vars

SpecAlloc == InitAlloc /\ [][NextAlloc]_vars

Init == InitLog

Next == NextLog

Spec == SpecLog

---------------------------------------------------------------------------
(* Properties                                                              *)

\* C1: suggest_calorie_adjustment maps a weekly delta d (lb/week, here
\* wk_gain_lb / 700) to +100 if d < 0.10, +75 if 0.10 <= d < 0.25, 0 if
\* 0.25 <= d <= 0.50, -50 if 0.50 < d <= 0.75, -100 if d > 0.75; the inputs
\* 0.09, 0.10, 0.25, 0.50, 0.51, 0.75, 0.76 give +100, +75, 0, 0, -50, -50, -100.
C1_StepFunction ==
    ~IsNone(kcal_adj) =>
      LET d == 100 * wk_gain_lb          \* d lb/week = d / 70000
          v == Val(kcal_adj)
      IN  /\ d < 10 * 700 => v = 100
          /\ 10 * 700 <= d /\ d < 25 * 700 => v = 75
          /\ 25 * 700 <= d /\ d <= 50 * 700 => v = 0
          /\ 50 * 700 < d /\ d <= 75 * 700 => v = -50
          /\ d > 75 * 700 => v = -100
          /\ \A b \in { << 9, 100 >>, << 10, 75 >>, << 25, 0 >>, << 50, 0 >>,
                        << 51, -50 >>, << 75, -50 >>, << 76, -100 >> } :
                wk_gain_lb = 7 * b[1] => v = b[2]

C1_Witness == wk_gain_lb = 7 * 10 /\ kcal_adj = Some(75)

\* C2: with fewer than 14 rows weekly_delta_7day_avg is None and report gives
\* no calorie recommendation; with 14 rows or more the weekly delta is defined.
C2_InsufficientData ==
    out.op = "report" =>
      /\ Len(entries) < 14 =>
            /\ IsNone(weekly_delta_7day_avg(WeightSeries(entries)))
            /\ IsNone(out.wk_gain)
            /\ IsNone(out.kcal_adj)
            /\ out.adj_plan = << >>
            /\ out.status # "printed"
      /\ Len(entries) >= 14 =>
            /\ ~IsNone(weekly_delta_7day_avg(WeightSeries(entries)))
            /\ ~IsNone(out.wk_gain)
            /\ ~IsNone(out.kcal_adj)

C2_Witness == out.op = "report" /\ Len(entries) = 13 /\ IsNone(out.kcal_adj)

\* ---- the signals of the diagnosis, read off the rows directly
WindowRows == { i \in DOMAIN entries : i > Len(entries) - 14 }

RowAdherence(i) == Val(entries[i].adherence_0to1)

RowWeight(i) == entries[i].morning_weight_lb

RECURSIVE SumAdherence(_)
SumAdherence(S) ==
    IF S = { } THEN 0
    ELSE LET x == CHOOSE y \in S : TRUE IN RowAdherence(x) + SumAdherence(S \ { x })

RECURSIVE SumWeight(_)
SumWeight(S) ==
    IF S = { } THEN 0
    ELSE LET x == CHOOSE y \in S : TRUE IN RowWeight(x) + SumWeight(S \ { x })

\* mean adherence over the window < 0.9
AdherenceLow == 10 * SumAdherence(WindowRows) < 9 * 100 * Cardinality(WindowRows)

\* 700 * (mean of the last 7 weights - mean of the 7 before), weights in 1/100 lb
WeeklyDelta ==
    SumWeight({ i \in DOMAIN entries : i > Len(entries) - 7 })
    - SumWeight({ i \in DOMAIN entries : i > Len(entries) - 14 /\ i <= Len(entries) - 7 })

DeloadFlagged == \E i \in WindowRows : entries[i].deload_week = Some(TRUE)

WaistRows == { i \in WindowRows : ~IsNone(entries[i].waist_in) }

HasLean(i) ==
    /\ ~IsNone(entries[i].bf_morning_r1)
    /\ ~IsNone(entries[i].bf_morning_r2)
    /\ ~IsNone(entries[i].bf_morning_r3)

\* weight * (1 - bf / 100) with bf the mean of the three readings, times 300000
RowLean(i) ==
    entries[i].morning_weight_lb
    * (3000 - (Val(entries[i].bf_morning_r1) + Val(entries[i].bf_morning_r2)
               + Val(entries[i].bf_morning_r3)))

LeanRows == { i \in WindowRows : HasLean(i) }

MinOf(S) == CHOOSE x \in S : \A y \in S : x <= y

MaxOf(S) == CHOOSE x \in S : \A y \in S : y <= x

NegativeNotes ==
    Cardinality({ i \in WindowRows :
        /\ ~IsNone(entries[i].performance_note)
        /\ \E b \in bad_words : Contains(StrLower(Val(entries[i].performance_note)), b) })

\* C3: with at least 14 rows and mean adherence over the last 14 below 0.9,
\* diagnose returns the adherence verdict whatever the other signals are.
C3_AdherenceFirst ==
    (out.op = "report" /\ Len(entries) >= 14 /\ AdherenceLow)
        => out.diag = Some(MsgAdherence)

C3_Witness ==
    /\ out.op = "report"
    /\ out.diag = Some(MsgAdherence)
    /\ DeloadFlagged
    /\ WeeklyDelta > 75 * 7
    /\ Cardinality(WaistRows) >= 2
    /\ Cardinality(LeanRows) >= 2
    /\ NegativeNotes >= 2

C5_ProteinGuard ==
    [][ (pc = "loop" /\ idx <= Len(priority) /\ priority[idx] \in { "whey_g", "yogurt_cups" })
          => /\ plan' # plan => Abs(remaining) > 150
             /\ Abs(remaining) <= 150 =>
                  /\ plan' = plan
                  /\ remaining' = remaining
                  /\ Abs(remaining) > 25 => (idx' = idx + 1 /\ pc' = "loop")
      ]_vars

PlanItems == { plan[k][1] : k \in DOMAIN plan }

C5_Witness ==
    /\ pc = "returned"
    /\ "yogurt_cups" \in PlanItems
    /\ \E j, k \in DOMAIN priority :
          /\ j < k
          /\ priority[j] = "whey_g"
          /\ "whey_g" \notin PlanItems
          /\ priority[k] \in PlanItems

\* C6: with a nonzero delta and a priority list naming an ingredient without
\* a kcal density, propose_adjustment never returns a plan.
C6_UnknownIngredientAborts ==
    (kcal_change # 0 /\ UnknownItem \in Range(priority)) => pc # "returned"

\* C7: every stored record's morning and evening body-fat percentage is
\* absent unless its three readings are all present, and then it is their
\* mean; avg3(18.0, None, 19.0) is absent and avg3(18.0, 18.5, 19.0) is 18.5.
C7_AllOrNothingAverage ==
    /\ \A i \in DOMAIN entries :
        LET r == entries[i]
            Ok(pct, r1, r2, r3) ==
                IF IsNone(r1) \/ IsNone(r2) \/ IsNone(r3) THEN IsNone(pct)
                ELSE /\ ~IsNone(pct)
                     \* pct is kept in 1/30 percent, readings in 1/10 percent
                     /\ Val(pct) = Val(r1) + Val(r2) + Val(r3)
        IN  /\ Ok(r.bf_morning_pct, r.bf_morning_r1, r.bf_morning_r2, r.bf_morning_r3)
            /\ Ok(r.bf_evening_pct, r.bf_evening_r1, r.bf_evening_r2, r.bf_evening_r3)
    /\ avg3(Some(180), None, Some(190)) = None
    /\ avg3(Some(180), Some(185), Some(190)) = Some(3 * 185)

C7_Witness ==
    \E i, j \in DOMAIN entries :
        /\ entries[i].bf_morning_r1 = Some(180)
        /\ IsNone(entries[i].bf_morning_r2)
        /\ IsNone(entries[i].bf_morning_pct)
        /\ entries[j].bf_morning_pct = Some(555)
        /\ IsNone(entries[j].bf_evening_pct)

C9_StrictThreshold ==
    cardio_note.done =>
      /\ ~IsNone(cardio_note.note) <=> (~IsNone(cardio_min) /\ Val(cardio_min) > 45 * 10)
      /\ cardio_min = Some(460) => ~IsNone(cardio_note.note)
      /\ cardio_min = Some(450) => IsNone(cardio_note.note)
      /\ cardio_min = None => IsNone(cardio_note.note)

C9_Witness ==
    cardio_note.done /\ cardio_min = Some(460) /\ ~IsNone(cardio_note.note)

\* C10: lean_gain_ratio_14d is None when fewer than 2 of the last 14 rows have
\* a lean mass or when the weight difference between the last and the first
\* such row is below 0.1 lb in absolute value; otherwise it is the lean-mass
\* difference over the weight difference of those two rows.
C10_LeanGainRatio ==
    (out.op = "dashboard" \/ (out.op = "report" /\ out.status = "printed")) =>
      IF Cardinality(LeanRows) < 2 THEN IsNone(out.ratio)
      ELSE
        LET f == MinOf(LeanRows)
            l == MaxOf(LeanRows)
            dw == RowWeight(l) - RowWeight(f)
        IN  IF 10 * Abs(dw) < 1 * 100 THEN IsNone(out.ratio)
            ELSE /\ ~IsNone(out.ratio)
                 /\ Val(out.ratio).num = RowLean(l) - RowLean(f)
                 /\ Val(out.ratio).den = 3000 * dw

C10_Witness ==
    /\ out.op = "dashboard"
    /\ IsNone(out.ratio)
    /\ Cardinality(LeanRows) >= 2
    /\ RowWeight(MaxOf(LeanRows)) - RowWeight(MinOf(LeanRows)) = 5
    /\ RowLean(MaxOf(LeanRows)) # RowLean(MinOf(LeanRows))

\* ---- the plan read as a ledger
RECURSIVE SumAchieved(_)
SumAchieved(p) == IF p = << >> THEN 0 ELSE p[Len(p)][3] + SumAchieved(SubSeq(p, 1, Len(p) - 1))

\* the kcal still open before entry k of the plan was appended
OpenBefore(k) == kcal_change - SumAchieved(SubSeq(plan, 1, k - 1))

\* the ingredients of the plan, in the order they were appended
PlanOrder == [ k \in DOMAIN plan |-> plan[k][1] ]

\* C11: once propose_adjustment has started, remaining equals delta minus
\* the achieved kcal appended so far; every entry was appended while more than
\* 25 kcal were open; for delta = 0 the plan returned is empty; and a returned
\* plan leaves at most 25 kcal open, or else every ingredient of the priority
\* list was reached: it is in the plan, or it is a protein lever the guard
\* passed over.
C11_StopRule ==
    pc \in { "loop", "returned", "raised" } =>
      /\ remaining = kcal_change - SumAchieved(plan)
      /\ \A k \in DOMAIN plan : Abs(OpenBefore(k)) > 25
      /\ kcal_change = 0 => (pc = "returned" /\ plan = << >>)
      /\ pc = "returned" =>
            \/ Abs(kcal_change - SumAchieved(plan)) <= 25
            \/ /\ PlanOrder = SelectSeq(priority, LAMBDA it : it \in PlanItems)
               /\ \A j \in DOMAIN priority :
                     priority[j] \notin PlanItems =>
                        priority[j] \in { "whey_g", "yogurt_cups" }

\* the list is exhausted with more than 25 kcal open, one entry appended and
\* a protein lever passed over
C11_Witness ==
    /\ pc = "returned"
    /\ Abs(kcal_change - SumAchieved(plan)) > 25
    /\ plan # << >>
    /\ \E j \in DOMAIN priority : priority[j] \notin PlanItems

Sign(x) == IF x > 0 THEN 1 ELSE IF x < 0 THEN -1 ELSE 0

\* C12: every entry of the plan has a nonzero quantity with the sign of the
\* kcal open at the step that appended it; the quantity is a whole number of
\* units for bananas, eggs and yogurt_cups, a multiple of 5 g for mct_g and
\* dextrin_g and a multiple of 10 g for oats_g, whey_g and flax_g; when the
\* rounding of open kcal / density gives zero the quantity is 10 g, or 1 unit
\* for the countables, in the direction of the open kcal (for a countable the
\* nearest whole unit is zero when the open kcal are at most half a unit).
C12_QuantityRule ==
    \A k \in DOMAIN plan :
      LET item == plan[k][1]
          q == plan[k][2]
          open == OpenBefore(k)
          countable == item \in { "bananas", "eggs", "yogurt_cups" }
      IN  /\ q # 0
          /\ open # 0
          /\ Sign(q) = Sign(open)
          /\ q \in Int
          /\ item \in { "mct_g", "dextrin_g" } => q % 5 = 0
          /\ item \in { "oats_g", "whey_g", "flax_g" } => q % 10 = 0
          /\ grams_for_kcal(item, open) = 0 =>
                q = Sign(open) * (IF countable THEN 1 ELSE 10)
          /\ (countable /\ 2 * 100 * Abs(open) <= KCAL_PER_UNIT[item]) =>
                q = Sign(open)
          /\ (countable /\ 2 * 100 * Abs(open) > KCAL_PER_UNIT[item]) =>
                \* nearest whole unit: |q * density - open| <= density / 2
                2 * Abs(q * KCAL_PER_UNIT[item] - 100 * open) <= KCAL_PER_UNIT[item]

\* a returned plan in which a countable was forced to one unit against the
\* sign of the call's delta (the walk had overshot), next to a gram item
C12_Witness ==
    /\ pc = "returned"
    /\ \E k \in DOMAIN plan :
          /\ plan[k][1] \in { "bananas", "eggs" }
          /\ plan[k][2] = -Sign(kcal_change)
          /\ 2 * 100 * Abs(OpenBefore(k)) <= KCAL_PER_UNIT[plan[k][1]]
    /\ \E k \in DOMAIN plan :
          /\ plan[k][1] \in { "oats_g", "flax_g", "mct_g", "dextrin_g" }
          /\ plan[k][2] % 5 = 0

\* ---- calendar arithmetic on the stored day strings (dates of one year, 2024)
DaysBeforeMonth == << 0, 31, 60, 91, 121, 152, 182, 213, 244, 274, 305, 335 >>

\* the day of the year of "YYYY-MM-DD"
CalendarDay(day) == DaysBeforeMonth[day[5] * 10 + day[6]] + day[7] * 10 + day[8]

LatestDay == CalendarDay(entries[Len(entries)].day)

\* the records dated within the calendar days lo..hi
RowsOfDays(lo, hi) ==
    { i \in DOMAIN entries : CalendarDay(entries[i].day) \in lo..hi }

\* mean weight over the rows A minus mean weight over the rows B equals
\* wk / 700 lb (weights in 1/100 lb), cross-multiplied
MeansDifferBy(A, B, wk) ==
    wk * Cardinality(A) * Cardinality(B)
        = 7 * (SumWeight(A) * Cardinality(B) - SumWeight(B) * Cardinality(A))

DaysConsecutive ==
    \A i \in DOMAIN entries :
        (i > 1 /\ i > Len(entries) - 13) =>
            CalendarDay(entries[i].day) = CalendarDay(entries[i - 1].day) + 1

\* C13: for a date-ordered series of at least 14 records, with or without a
\* record on every calendar day, the weekly delta report computes is the mean
\* morning weight of the 7 calendar days ending at the latest day minus the
\* mean morning weight of the 7 calendar days ending 7 days earlier.
C13_CalendarWeeklyDelta ==
    (out.op = "report" /\ Len(entries) >= 14) =>
      /\ ~IsNone(out.wk_gain)
      /\ MeansDifferBy(RowsOfDays(LatestDay - 6, LatestDay),
                       RowsOfDays(LatestDay - 13, LatestDay - 7),
                       Val(out.wk_gain))

\* the same statement for series whose last 14 records fall on 14 consecutive
\* days: there the rolling windows over rows are the calendar windows
WeeklyDeltaOnConsecutiveDays ==
    (out.op = "report" /\ Len(entries) >= 14 /\ DaysConsecutive) =>
      /\ ~IsNone(out.wk_gain)
      /\ MeansDifferBy(RowsOfDays(LatestDay - 6, LatestDay),
                       RowsOfDays(LatestDay - 13, LatestDay - 7),
                       Val(out.wk_gain))

===========================================================================
